---- MODULE Spec2Model ----
(***************************************************************************)
(* GroupCreatorBot (src/main.py): the login sessions, the worker handles,  *)
(* the counting semaphore and the batch worker, as a state machine.  Every *)
(* coroutine is cut at its await expressions: one action is the code that  *)
(* runs between two suspension points of the asyncio event loop.           *)
(*                                                                         *)
(* CancelledError is taken as a BaseException (Python >= 3.8): the inner   *)
(* `except Exception` of the worker loop does not catch it.                *)
(* Time is not modelled: a sleep is a suspension point and nothing more.   *)
(***************************************************************************)
EXTENDS Naturals, Integers, Sequences, FiniteSets

(* ---- program constants ---- *)
MAX_CONCURRENT_WORKERS == 5
BATCH == 50

(* ---- bounds of the model ---- *)
MaxTasks == 6
MaxInv == 2
MaxClients == 2
SchedBatch == 1
RaceTasks == 2

Owners == {1, 2}
Tasks == 1..MaxTasks
Invs == 1..MaxInv
Clients == 1..MaxClients

(* Account names are strings of characters; "!" stands for any character  *)
(* outside [a-zA-Z0-9_-].                                                  *)
SafeChars == {"a", "b", "c"}
Labels == {<<"a">>, <<"b">>, <<"c">>, <<"a", "!">>}
Keys == Owners \X Labels

NoTask == 0
NoClient == 0
NoSession == [state |-> "none", phone |-> FALSE, client |-> NoClient, hash |-> FALSE]

VARIABLES
    login_sessions,    \* self.login_sessions: owner -> session dict, or NoSession
    active_workers,    \* self.active_workers: worker_key -> task, or NoTask
    worker_semaphore,  \* the value of self.worker_semaphore
    files,             \* the session files present under SESSIONS_DIR
    tasks,             \* the asyncio tasks running run_group_creation_worker
    handlers,          \* handler invocations suspended at an await
    clients,           \* the user clients created by the login flow
    delete_reply       \* the last reply of _delete_account_handler

vars == <<login_sessions, active_workers, worker_semaphore, files, tasks,
          handlers, clients, delete_reply>>

(* re.sub(r'[^a-zA-Z0-9_-]', '', account_name) *)
IsSafeChar(c) == c \in SafeChars
safe_account_name(account_name) == SelectSeq(account_name, IsSafeChar)

get_session_path(user_id, account_name) ==
    <<user_id, safe_account_name(account_name)>>

worker_key(user_id, account_name) == <<user_id, account_name>>

load_session_string(user_id, account_name) ==
    get_session_path(user_id, account_name) \in files

delete_session_file(fs, user_id, account_name) ==
    fs \ {get_session_path(user_id, account_name)}

FreshTask ==
    [pc |-> "unused", key |-> <<>>, i |-> 0, made |-> 0, flood |-> 0,
     conn |-> FALSE, cancel |-> FALSE, why |-> "none", rel |-> 0,
     cpc |-> "none", fin |-> "none", calls |-> 0]

\* a handler invocation; raised is the line of the exception the last
\* invocation ended with when nothing caught it, NotRaised otherwise
NotRaised == 0
IdleHandler == [pc |-> "idle", owner |-> 0, label |-> <<>>, conn |-> FALSE,
                client |-> NoClient, raised |-> NotRaised]

Init ==
    /\ login_sessions = [u \in Owners |-> NoSession]
    /\ active_workers = [k \in Keys |-> NoTask]
    /\ worker_semaphore = MAX_CONCURRENT_WORKERS
    /\ files \in SUBSET {get_session_path(k[1], k[2]) : k \in Keys}
    /\ tasks = [t \in Tasks |-> FreshTask]
    /\ handlers = [h \in Invs |-> IdleHandler]
    /\ clients = [c \in Clients |-> "free"]
    /\ delete_reply = "none"

(***************************************************************************)
(* run_group_creation_worker                                               *)
(***************************************************************************)

\* the pcs inside `async with self.worker_semaphore`
BodyPcs == {"send_start", "create", "send_progress", "sleep", "send_restricted",
            "send_flood", "flood_sleep", "send_error"}

InBody(t) == tasks[t].pc \in BodyPcs

SemaphoreNeverLocked == TRUE

\* `async with self.worker_semaphore`: __aenter__ takes a slot when one is free
SemaphoreFree == worker_semaphore > 0

\* leaving the `async with` block, by whatever way: __aexit__ releases the slot
LeaveBody(t, reason) ==
    /\ worker_semaphore' = worker_semaphore + 1
    /\ tasks' = [tasks EXCEPT ![t] = [@ EXCEPT !.pc = "finally_send",
                                               !.why = reason,
                                               !.rel = @ + 1]]

\* the first step of the task: line 148, up to the await of line 157 when a
\* slot is free, suspended in acquire() otherwise
worker_begin(t) ==
    /\ tasks[t].pc = "created"
    /\ ~tasks[t].cancel
    /\ IF SemaphoreFree
       THEN /\ worker_semaphore' = worker_semaphore - 1
            /\ tasks' = [tasks EXCEPT ![t].pc = "send_start"]
       ELSE /\ tasks' = [tasks EXCEPT ![t].pc = "gate"]
            /\ UNCHANGED worker_semaphore
    /\ UNCHANGED <<login_sessions, active_workers, files, handlers, clients,
                   delete_reply>>

\* a waiter of the semaphore is woken with a slot
worker_acquire(t) ==
    /\ tasks[t].pc = "gate"
    /\ ~tasks[t].cancel
    /\ SemaphoreFree
    /\ worker_semaphore' = worker_semaphore - 1
    /\ tasks' = [tasks EXCEPT ![t].pc = "send_start"]
    /\ UNCHANGED <<login_sessions, active_workers, files, handlers, clients,
                   delete_reply>>

\* line 157 returns or raises; `for i in range(50)` starts at i = 0
worker_send_start(t, ok) ==
    /\ tasks[t].pc = "send_start"
    /\ ~tasks[t].cancel
    /\ IF ok
       THEN /\ tasks' = [tasks EXCEPT ![t] = [@ EXCEPT !.pc = "create", !.i = 0]]
            /\ UNCHANGED worker_semaphore
       ELSE LeaveBody(t, "send_failed")
    /\ UNCHANGED <<login_sessions, active_workers, files, handlers, clients,
                   delete_reply>>

\* line 162: the remote answers the CreateChatRequest of index i
CreateOutcomes == {"ok", "restricted", "flood", "error"}

\* calls counts the CreateChatRequest calls the task has issued
worker_create(t, r) ==
    /\ tasks[t].pc = "create"
    /\ ~tasks[t].cancel
    /\ tasks' = [tasks EXCEPT ![t] =
          LET c == [@ EXCEPT !.calls = @ + 1] IN
          CASE r = "ok" -> [c EXCEPT !.pc = "send_progress", !.made = @ + 1]
            [] r = "restricted" -> [c EXCEPT !.pc = "send_restricted", !.why = "restricted"]
            [] r = "flood" -> [c EXCEPT !.pc = "send_flood", !.flood = @ + 1]
            [] r = "error" -> [c EXCEPT !.pc = "send_error", !.why = "error"]]
    /\ UNCHANGED <<login_sessions, active_workers, worker_semaphore, files, handlers,
                   clients, delete_reply>>

\* line 168: a failure of the progress message is raised inside the inner try
\* and caught by `except Exception` (line 181)
worker_send_progress(t, ok) ==
    /\ tasks[t].pc = "send_progress"
    /\ ~tasks[t].cancel
    /\ tasks' = [tasks EXCEPT ![t] =
          IF ok THEN [@ EXCEPT !.pc = "sleep"]
                ELSE [@ EXCEPT !.pc = "send_error", !.why = "progress_failed"]]
    /\ UNCHANGED <<login_sessions, active_workers, worker_semaphore, files, handlers,
                   clients, delete_reply>>

\* a for statement that takes one index too many
loop_continue_one_more(t, n) ==
    IF tasks[t].i < n
    THEN /\ tasks' = [tasks EXCEPT ![t] = [@ EXCEPT !.pc = "create", !.i = @ + 1]]
         /\ UNCHANGED worker_semaphore
    ELSE LeaveBody(t, "exhausted")

\* the end of one pass of `for i in range(n)`: the next index, or the end of
\* the loop and of the `async with` block
loop_continue(t, n) ==
    IF tasks[t].i + 1 < n
    THEN /\ tasks' = [tasks EXCEPT ![t] = [@ EXCEPT !.pc = "create", !.i = @ + 1]]
         /\ UNCHANGED worker_semaphore
    ELSE LeaveBody(t, "exhausted")

\* `break`: the end of the loop and of the `async with` block
loop_break(t) == LeaveBody(t, tasks[t].why)

\* line 170: the sleep between two steps returns
worker_sleep(t, n) ==
    /\ tasks[t].pc = "sleep"
    /\ ~tasks[t].cancel
    /\ loop_continue(t, n)
    /\ UNCHANGED <<login_sessions, active_workers, files, handlers, clients,
                   delete_reply>>

\* lines 175-176: the message, then break; a failure of the message leaves the
\* loop as well, as an exception
worker_send_restricted(t, ok) ==
    /\ tasks[t].pc = "send_restricted"
    /\ ~tasks[t].cancel
    /\ IF ok THEN loop_break(t) ELSE LeaveBody(t, "restricted_unsent")
    /\ UNCHANGED <<login_sessions, active_workers, files, handlers, clients,
                   delete_reply>>

\* line 179: the message of the FloodWaitError handler
worker_send_flood(t, ok) ==
    /\ tasks[t].pc = "send_flood"
    /\ ~tasks[t].cancel
    /\ IF ok
       THEN /\ tasks' = [tasks EXCEPT ![t].pc = "flood_sleep"]
            /\ UNCHANGED worker_semaphore
       ELSE LeaveBody(t, "send_failed")
    /\ UNCHANGED <<login_sessions, active_workers, files, handlers, clients,
                   delete_reply>>

\* line 180: asyncio.sleep(fwe.seconds) returns; the handler ends and the for
\* statement takes the next index
after_flood_wait(t, n) == loop_continue(t, n)

worker_flood_sleep(t, n) ==
    /\ tasks[t].pc = "flood_sleep"
    /\ ~tasks[t].cancel
    /\ after_flood_wait(t, n)
    /\ UNCHANGED <<login_sessions, active_workers, files, handlers, clients,
                   delete_reply>>

\* lines 183-184: the message, then break
after_generic_error(t, n) == loop_break(t)

worker_send_error(t, n, ok) ==
    /\ tasks[t].pc = "send_error"
    /\ ~tasks[t].cancel
    /\ IF ok THEN after_generic_error(t, n) ELSE LeaveBody(t, "error_unsent")
    /\ UNCHANGED <<login_sessions, active_workers, files, handlers, clients,
                   delete_reply>>

\* lines 190-191
remove_handle(aw, key) == [aw EXCEPT ![key] = NoTask]

\* lines 189-193: the message of the finally block returns, the handle of the
\* key is removed, and disconnect() is awaited when the client is connected;
\* when the message raises, the rest of the finally block is not run
worker_finally_send(t, ok) ==
    /\ tasks[t].pc = "finally_send"
    /\ ~tasks[t].cancel
    /\ IF ok
       THEN /\ active_workers' = remove_handle(active_workers, tasks[t].key)
            /\ tasks' = [tasks EXCEPT ![t] =
                  IF @.conn THEN [@ EXCEPT !.pc = "disconnect"]
                            ELSE [@ EXCEPT !.pc = "done", !.fin = "cleaned"]]
       ELSE /\ tasks' = [tasks EXCEPT ![t] = [@ EXCEPT !.pc = "done", !.fin = "send_raised"]]
            /\ UNCHANGED active_workers
    /\ UNCHANGED <<login_sessions, worker_semaphore, files, handlers, clients,
                   delete_reply>>

\* line 193
worker_disconnect(t) ==
    /\ tasks[t].pc = "disconnect"
    /\ tasks' = [tasks EXCEPT ![t] = [@ EXCEPT !.pc = "done", !.conn = FALSE,
                                               !.fin = "cleaned"]]
    /\ UNCHANGED <<login_sessions, active_workers, worker_semaphore, files, handlers,
                   clients, delete_reply>>

\* Task.cancel() was called: CancelledError is thrown into the coroutine at the
\* await it is suspended in.  A coroutine that never ran ends without entering
\* its try statement; inside the try statement the finally block runs (after
\* __aexit__ when the `async with` body was entered); inside the finally block
\* the exception leaves the coroutine.
worker_cancelled(t) ==
    /\ tasks[t].cancel
    /\ tasks[t].pc \in {"created", "gate", "finally_send"} \cup BodyPcs
    /\ LET at == tasks[t].pc
           c == [tasks[t] EXCEPT !.cancel = FALSE,
                                 !.why = IF at = "finally_send" THEN @ ELSE "cancelled",
                                 !.cpc = IF at = "sleep" THEN "sleep" ELSE "other"]
       IN  CASE at = "created" ->
                  /\ tasks' = [tasks EXCEPT ![t] = [c EXCEPT !.pc = "done", !.fin = "never_ran"]]
                  /\ UNCHANGED worker_semaphore
             [] at = "gate" ->
                  /\ tasks' = [tasks EXCEPT ![t] = [c EXCEPT !.pc = "finally_send"]]
                  /\ UNCHANGED worker_semaphore
             [] at = "finally_send" ->
                  /\ tasks' = [tasks EXCEPT ![t] = [c EXCEPT !.pc = "done", !.fin = "cancelled"]]
                  /\ UNCHANGED worker_semaphore
             [] OTHER ->
                  /\ tasks' = [tasks EXCEPT ![t] = [c EXCEPT !.pc = "finally_send",
                                                             !.rel = @ + 1]]
                  /\ worker_semaphore' = worker_semaphore + 1
    /\ UNCHANGED <<login_sessions, active_workers, files, handlers, clients,
                   delete_reply>>

\* one step of the worker task t, whose loop runs over range(n); the wake-up
\* of a task suspended in acquire() is worker_acquire
run_group_creation_worker(t, n) ==
    \/ worker_begin(t)
    \/ \E ok \in BOOLEAN : worker_send_start(t, ok)
    \/ \E r \in CreateOutcomes : worker_create(t, r)
    \/ \E ok \in BOOLEAN : worker_send_progress(t, ok)
    \/ worker_sleep(t, n)
    \/ \E ok \in BOOLEAN : worker_send_restricted(t, ok)
    \/ \E ok \in BOOLEAN : worker_send_flood(t, ok)
    \/ worker_flood_sleep(t, n)
    \/ \E ok \in BOOLEAN : worker_send_error(t, n, ok)
    \/ \E ok \in BOOLEAN : worker_finally_send(t, ok)
    \/ worker_disconnect(t)
    \/ worker_cancelled(t)

(***************************************************************************)
(* _start_process_handler                                                  *)
(***************************************************************************)

UnusedTasks(cap) == {t \in 1..cap : tasks[t].pc = "unused"}

\* asyncio.create_task: the task object of the lowest free number
NewTask(cap) == CHOOSE t \in UnusedTasks(cap) : \A x \in UnusedTasks(cap) : t <= x

\* the check of line 263
handle_exists(key) == active_workers[key] # NoTask

\* lines 260-272: the message is routed to the handler, the handle and the
\* session file are looked up and the first reply is awaited.  The two early
\* returns (lines 263-265 and 268-270) change nothing.  Start requests are
\* followed while a task of the model is left to create.
start_process_handler_begin(h, user_id, account_name, cap) ==
    /\ handlers[h].pc = "idle"
    /\ UnusedTasks(cap) # {}
    /\ ~handle_exists(worker_key(user_id, account_name))
    /\ load_session_string(user_id, account_name)
    /\ handlers' = [handlers EXCEPT ![h] =
          [IdleHandler EXCEPT !.pc = "s_reply", !.owner = user_id, !.label = account_name]]
    /\ UNCHANGED <<login_sessions, active_workers, worker_semaphore, files, tasks,
                   clients, delete_reply>>

\* line 272 returns (the client is created, line 273, and connect() awaited)
\* or raises (the handler ends)
start_process_handler_reply(h, ok) ==
    /\ handlers[h].pc = "s_reply"
    /\ handlers' = [handlers EXCEPT ![h] =
          IF ok THEN [@ EXCEPT !.pc = "s_connect"] ELSE IdleHandler]
    /\ UNCHANGED <<login_sessions, active_workers, worker_semaphore, files, tasks,
                   clients, delete_reply>>

\* line 275 returns (is_user_authorized() is awaited) or raises (lines 282-284)
start_process_handler_connect(h, ok) ==
    /\ handlers[h].pc = "s_connect"
    /\ handlers' = [handlers EXCEPT ![h] =
          IF ok THEN [@ EXCEPT !.pc = "s_auth", !.conn = TRUE] ELSE IdleHandler]
    /\ UNCHANGED <<login_sessions, active_workers, worker_semaphore, files, tasks,
                   clients, delete_reply>>

AuthOutcomes == {"authorized", "unauthorized", "error"}

\* lines 277-278: the task is created and recorded under the key, whatever
\* the key held
register_worker(h, t) ==
    /\ tasks' = [tasks EXCEPT ![t] =
          [FreshTask EXCEPT !.pc = "created",
                            !.key = worker_key(handlers[h].owner, handlers[h].label),
                            !.conn = handlers[h].conn]]
    /\ active_workers' =
          [active_workers EXCEPT ![worker_key(handlers[h].owner, handlers[h].label)] = t]

\* lines 276-284: is_user_authorized() answers
start_process_handler_auth(h, r, cap) ==
    /\ handlers[h].pc = "s_auth"
    /\ CASE r = "authorized" ->
              /\ UnusedTasks(cap) # {}
              /\ register_worker(h, NewTask(cap))
              /\ UNCHANGED files
         [] r = "unauthorized" ->
              /\ files' = delete_session_file(files, handlers[h].owner, handlers[h].label)
              /\ UNCHANGED <<tasks, active_workers>>
         [] r = "error" ->
              UNCHANGED <<files, tasks, active_workers>>
    /\ handlers' = [handlers EXCEPT ![h] = IdleHandler]
    /\ UNCHANGED <<login_sessions, worker_semaphore, clients, delete_reply>>

\* one step of a start request of an owner of us for an account name of ls,
\* handled in the invocation h, with at most cap tasks ever created
start_process_handler(h, us, ls, cap) ==
    \/ \E u \in us, l \in ls : start_process_handler_begin(h, u, l, cap)
    \/ \E ok \in BOOLEAN : start_process_handler_reply(h, ok)
    \/ \E ok \in BOOLEAN : start_process_handler_connect(h, ok)
    \/ \E r \in AuthOutcomes : start_process_handler_auth(h, r, cap)

(***************************************************************************)
(* _delete_account_handler                                                 *)
(***************************************************************************)

\* line 293: Task.cancel() requests the cancellation of a task that has not
\* ended, and does nothing to one that has
cancel(ts, t) ==
    IF ts[t].pc = "done" THEN ts ELSE [ts EXCEPT ![t].cancel = TRUE]

\* lines 300-304: the text of the reply is chosen by what _delete_session_file
\* returned, TRUE when the file was there and was unlinked
DeleteReplies == [deleted |-> "deleted_and_stopped", gone |-> "stopped_only"]

delete_reply_text(deleted) ==
    IF deleted THEN DeleteReplies.deleted ELSE DeleteReplies.gone

\* lines 288-306: the worker of the key, if any, is cancelled and its handle
\* removed, the session file is deleted and the reply is sent; no await comes
\* before the reply, and the menu that follows it changes nothing
delete_account_handler(user_id, account_name) ==
    LET key == worker_key(user_id, account_name) IN
    /\ IF handle_exists(key)
       THEN /\ tasks' = cancel(tasks, active_workers[key])
            /\ active_workers' = remove_handle(active_workers, key)
       ELSE UNCHANGED <<tasks, active_workers>>
    /\ files' = delete_session_file(files, user_id, account_name)
    /\ delete_reply' = delete_reply_text(load_session_string(user_id, account_name))
    /\ UNCHANGED <<login_sessions, worker_semaphore, handlers, clients>>

(***************************************************************************)
(* The login flow: _initiate_login_flow, the state machine of              *)
(* _message_router (lines 252-256) and the four input handlers             *)
(***************************************************************************)

\* line 221: the session of the owner is replaced by a new one
initiate_login_flow(user_id) ==
    /\ login_sessions' = [login_sessions EXCEPT ![user_id] =
          [NoSession EXCEPT !.state = "awaiting_phone"]]
    /\ UNCHANGED <<active_workers, worker_semaphore, files, tasks, handlers, clients,
                   delete_reply>>

session_exists(user_id) == login_sessions[user_id].state # "none"

FreeClients == {c \in Clients : clients[c] = "free"}

\* _create_new_user_client: the client object of the lowest free number
NewClient == CHOOSE c \in FreeClients : \A x \in FreeClients : c <= x

end_handler(h) == handlers' = [handlers EXCEPT ![h] = IdleHandler]

\* the invocation h ends with an exception raised at the line `line`
end_handler_raising(h, line) ==
    handlers' = [handlers EXCEPT ![h] = [IdleHandler EXCEPT !.raised = line]]

\* `del self.login_sessions[user_id]` (lines 322, 337, 348); on a missing key
\* it raises KeyError and the map is as before
del_login_session(user_id) ==
    login_sessions' = [login_sessions EXCEPT ![user_id] = NoSession]

\* the `except Exception` branch of an input handler (lines 320-323, 335-338,
\* 346-349): the session is deleted and the failure reported; the KeyError
\* of a `del` on a missing key is raised inside the except clause and ends
\* the invocation
login_failed_at(h, line) ==
    /\ del_login_session(handlers[h].owner)
    /\ IF session_exists(handlers[h].owner)
       THEN end_handler(h)
       ELSE end_handler_raising(h, line)

DelLines == [p |-> 322, c |-> 337, w |-> 348]

\* the line of the `del` of the handler the invocation h runs
del_line(h) ==
    CASE handlers[h].pc \in {"p_connect", "p_send_code", "p_reply"} -> DelLines.p
      [] handlers[h].pc \in {"c_sign_in", "c_reply"} -> DelLines.c
      [] OTHER -> DelLines.w

login_failed(h) == login_failed_at(h, del_line(h))

\* lines 310-315: the phone and a new client are stored in the session and
\* connect() is awaited
handle_phone_input_begin(h, user_id) ==
    /\ handlers[h].pc = "idle"
    /\ login_sessions[user_id].state = "awaiting_phone"
    /\ FreeClients # {}
    /\ login_sessions' = [login_sessions EXCEPT ![user_id] =
          [@ EXCEPT !.phone = TRUE, !.client = NewClient]]
    /\ clients' = [clients EXCEPT ![NewClient] = "new"]
    /\ handlers' = [handlers EXCEPT ![h] =
          [IdleHandler EXCEPT !.pc = "p_connect", !.owner = user_id, !.client = NewClient]]
    /\ UNCHANGED <<active_workers, worker_semaphore, files, tasks, delete_reply>>

\* line 315 returns: line 316 reads the phone of the session (KeyError when
\* the session is gone or is a new one) and awaits send_code_request; or
\* line 315 raises
handle_phone_input_connect(h, ok) ==
    /\ handlers[h].pc = "p_connect"
    /\ IF ok
       THEN /\ clients' = [clients EXCEPT ![handlers[h].client] = "connected"]
            /\ IF login_sessions[handlers[h].owner].phone
               THEN /\ handlers' = [handlers EXCEPT ![h].pc = "p_send_code"]
                    /\ UNCHANGED login_sessions
               ELSE login_failed(h)
       ELSE /\ login_failed(h)
            /\ UNCHANGED clients
    /\ UNCHANGED <<active_workers, worker_semaphore, files, tasks, delete_reply>>

\* line 316 returns: lines 317-319 write the hash and the state into the
\* session the map holds now, and the reply is awaited; or line 316 raises
handle_phone_input_send_code(h, ok) ==
    /\ handlers[h].pc = "p_send_code"
    /\ IF ok /\ session_exists(handlers[h].owner)
       THEN /\ login_sessions' = [login_sessions EXCEPT ![handlers[h].owner] =
                  [@ EXCEPT !.hash = TRUE, !.state = "awaiting_code"]]
            /\ handlers' = [handlers EXCEPT ![h].pc = "p_reply"]
       ELSE login_failed(h)
    /\ UNCHANGED <<active_workers, worker_semaphore, files, tasks, clients,
                   delete_reply>>

\* the reply of an input handler, awaited inside its try statement (lines
\* 319, 331, 345), returns or raises
handle_input_reply(h, ok) ==
    /\ handlers[h].pc \in {"p_reply", "c_reply", "w_reply"}
    /\ IF ok
       THEN /\ end_handler(h)
            /\ UNCHANGED login_sessions
       ELSE login_failed(h)
    /\ UNCHANGED <<active_workers, worker_semaphore, files, tasks, clients,
                   delete_reply>>

\* lines 326-329: the client and the phone are read from the session and
\* sign_in is awaited.  A session without a client raises KeyError at line
\* 327, before the try statement: the invocation ends and the session stays.
\* A session without a phone raises it at line 329, inside the try statement.
handle_code_input_begin(h, user_id) ==
    /\ handlers[h].pc = "idle"
    /\ login_sessions[user_id].state = "awaiting_code"
    /\ CASE login_sessions[user_id].client = NoClient ->
              /\ end_handler_raising(h, 327)
              /\ UNCHANGED login_sessions
         [] login_sessions[user_id].client # NoClient /\ login_sessions[user_id].phone ->
              /\ handlers' = [handlers EXCEPT ![h] =
                    [IdleHandler EXCEPT !.pc = "c_sign_in", !.owner = user_id,
                                        !.client = login_sessions[user_id].client]]
              /\ UNCHANGED login_sessions
         [] OTHER ->
              /\ del_login_session(user_id)
              /\ end_handler(h)
    /\ UNCHANGED <<active_workers, worker_semaphore, files, tasks, clients,
                   delete_reply>>

CodeOutcomes == {"ok", "password_needed", "error"}

\* line 329 returns (line 330), raises SessionPasswordNeededError (line 333)
\* or raises something else (lines 335-338).  The state is written into the
\* session the map holds now; without one, line 330 raises KeyError inside
\* the try statement, and line 333 raises it inside its except clause, which
\* no other clause of the statement catches.
handle_code_input_sign_in(h, r) ==
    /\ handlers[h].pc = "c_sign_in"
    /\ CASE r = "ok" /\ session_exists(handlers[h].owner) ->
              /\ login_sessions' = [login_sessions EXCEPT ![handlers[h].owner].state =
                    "awaiting_account_name"]
              /\ handlers' = [handlers EXCEPT ![h].pc = "c_reply"]
         [] r = "password_needed" /\ session_exists(handlers[h].owner) ->
              /\ login_sessions' = [login_sessions EXCEPT ![handlers[h].owner].state =
                    "awaiting_password"]
              /\ end_handler(h)
         [] r = "password_needed" /\ ~session_exists(handlers[h].owner) ->
              /\ end_handler_raising(h, 333)
              /\ UNCHANGED login_sessions
         [] OTHER -> login_failed(h)
    /\ UNCHANGED <<active_workers, worker_semaphore, files, tasks, clients,
                   delete_reply>>

\* lines 341-343: the client is read from the session inside the try
\* statement and sign_in(password=...) is awaited
handle_password_input_begin(h, user_id) ==
    /\ handlers[h].pc = "idle"
    /\ login_sessions[user_id].state = "awaiting_password"
    /\ IF login_sessions[user_id].client # NoClient
       THEN /\ handlers' = [handlers EXCEPT ![h] =
                  [IdleHandler EXCEPT !.pc = "w_sign_in", !.owner = user_id,
                                      !.client = login_sessions[user_id].client]]
            /\ UNCHANGED login_sessions
       ELSE /\ del_login_session(user_id)
            /\ end_handler(h)
    /\ UNCHANGED <<active_workers, worker_semaphore, files, tasks, clients,
                   delete_reply>>

PasswordOutcomes == {"ok", "wrong_password", "error"}

\* lines 346-349: whatever sign_in raised
password_rejected(h, r) == login_failed(h)

\* line 343 returns (line 344) or raises (lines 346-349)
handle_password_input_sign_in(h, r) ==
    /\ handlers[h].pc = "w_sign_in"
    /\ IF r = "ok" /\ session_exists(handlers[h].owner)
       THEN /\ login_sessions' = [login_sessions EXCEPT ![handlers[h].owner].state =
                  "awaiting_account_name"]
            /\ handlers' = [handlers EXCEPT ![h].pc = "w_reply"]
       ELSE password_rejected(h, r)
    /\ UNCHANGED <<active_workers, worker_semaphore, files, tasks, clients,
                   delete_reply>>

\* _get_user_accounts: the names read back from the file names of the owner
get_user_accounts(user_id) == {f[2] : f \in {g \in files : g[1] = user_id}}

\* _save_session_string
save_session_string(fs, user_id, account_name) ==
    fs \cup {get_session_path(user_id, account_name)}

\* lines 353-366 and on_login_success (lines 197-205): an empty name or a
\* name of get_user_accounts is refused with nothing changed, and so is a
\* session without a client (KeyError, line 365).  An accepted name saves the
\* session file and deletes the login session; the message and the menu that
\* follow (lines 204-205) change nothing.
handle_account_name_input(user_id, account_name) ==
    /\ login_sessions[user_id].state = "awaiting_account_name"
    /\ account_name # <<>>
    /\ account_name \notin get_user_accounts(user_id)
    /\ login_sessions[user_id].client # NoClient
    /\ files' = save_session_string(files, user_id, account_name)
    /\ del_login_session(user_id)
    /\ UNCHANGED <<active_workers, worker_semaphore, tasks, handlers, clients,
                   delete_reply>>

\* one step of the login flow of an owner of us, in the invocation h
login_flow(h, us, ls) ==
    \/ \E u \in us : initiate_login_flow(u)
    \/ \E u \in us : handle_phone_input_begin(h, u)
    \/ \E ok \in BOOLEAN : handle_phone_input_connect(h, ok)
    \/ \E ok \in BOOLEAN : handle_phone_input_send_code(h, ok)
    \/ \E u \in us : handle_code_input_begin(h, u)
    \/ \E r \in CodeOutcomes : handle_code_input_sign_in(h, r)
    \/ \E u \in us : handle_password_input_begin(h, u)
    \/ \E r \in PasswordOutcomes : handle_password_input_sign_in(h, r)
    \/ \E ok \in BOOLEAN : handle_input_reply(h, ok)
    \/ \E u \in us, l \in ls : handle_account_name_input(u, l)

(***************************************************************************)
(* The batch worker alone: one account of one owner, the whole batch.      *)
(***************************************************************************)

WorkerOwner == 1
WorkerLabel == <<"a">>

InitWorker ==
    /\ login_sessions = [u \in Owners |-> NoSession]
    /\ active_workers = [k \in Keys |-> NoTask]
    /\ worker_semaphore = MAX_CONCURRENT_WORKERS
    /\ files = {get_session_path(WorkerOwner, WorkerLabel)}
    /\ tasks = [t \in Tasks |-> FreshTask]
    /\ handlers = [h \in Invs |-> IdleHandler]
    /\ clients = [c \in Clients |-> "free"]
    /\ delete_reply = "none"

NextWorker ==
    \/ start_process_handler(1, {WorkerOwner}, {WorkerLabel}, 1)
    \/ delete_account_handler(WorkerOwner, WorkerLabel)
    \/ run_group_creation_worker(1, BATCH)

SpecWorker == InitWorker /\ [][NextWorker]_vars

Ended(t) == tasks[t].pc \in {"finally_send", "disconnect", "done"}

\* C1: a batch whose remote raised rate-limited once and succeeded otherwise
\* (the loop ran to its end, nothing else failed, nobody cancelled) ends with
\* exactly 50 successful creates: the rate-limited index is tried again.
C1_RateLimitedIndexRetried ==
    \A t \in Tasks :
        (Ended(t) /\ tasks[t].why = "exhausted" /\ tasks[t].flood = 1)
            => tasks[t].made = BATCH

\* C2: after a create-operation failed with an error that is neither
\* restricted nor rate-limited, and the failure was announced, the batch is not
\* over while indices are left: the worker goes on with the next index.
C2_GenericErrorContinues ==
    \A t \in Tasks :
        (tasks[t].why = "error" /\ tasks[t].i + 1 < BATCH) => ~Ended(t)

\* C3: when the create-operation of attempt k (index k - 1) fails with the
\* restricted signal, k - 1 creates are completed and the worker issues no
\* create-operation afterwards.
C3_RestrictedStopsAfterKMinus1 ==
    \A t \in Tasks :
        tasks[t].why \in {"restricted", "restricted_unsent"}
            => /\ tasks[t].made = tasks[t].i
               /\ tasks[t].pc # "create"

\* C7: a worker cancelled in its inter-step sleep issues no further
\* create-operation, releases its slot exactly once, and ends with no Worker
\* Handle left for its key and its client disconnected.
C7_CancelledInSleepCleansUpOnce ==
    \A t \in Tasks :
        tasks[t].cpc = "sleep"
            => /\ tasks[t].pc \in {"finally_send", "disconnect", "done"}
               /\ tasks[t].rel = 1
               /\ tasks[t].pc = "done"
                     => (~handle_exists(tasks[t].key) /\ ~tasks[t].conn)

\* C8: after a worker task that ran has ended, no Worker Handle refers to it
\* and its client is not connected.
C8_CleanupAlwaysCompletes ==
    \A t \in Tasks :
        (tasks[t].pc = "done" /\ tasks[t].fin # "never_ran")
            => (active_workers[tasks[t].key] # t /\ ~tasks[t].conn)

\* the worker left its loop at the end of the range or by a break
LeftLoop(t) == tasks[t].why \in {"exhausted", "restricted", "error", "progress_failed"}

\* C13: a worker whose cancellation is delivered in its cleanup phase, after
\* it left its loop, ends with no Worker Handle for its key and with its
\* client disconnected.
C13_CancelInCleanupStillCleans ==
    \A t \in Tasks :
        (tasks[t].fin = "cancelled" /\ LeftLoop(t))
            => (~handle_exists(tasks[t].key) /\ ~tasks[t].conn)

\* C16: the reply of delete_account tells what was done: "deleted and
\* stopped" when a record was deleted and a worker cancelled, "stopped only"
\* when a worker was cancelled and no record was left, "nothing to do" when
\* there was neither.
C16_DeleteReportsWhatItDid ==
    [][\A u \in Owners, l \in Labels :
          delete_account_handler(u, l)
              => LET cancelled == handle_exists(worker_key(u, l))
                     deleted == load_session_string(u, l)
                 IN  /\ delete_reply' = "deleted_and_stopped" <=> (cancelled /\ deleted)
                     /\ delete_reply' = "stopped_only" <=> (cancelled /\ ~deleted)
                     /\ delete_reply' = "nothing_to_do" <=> (~cancelled /\ ~deleted)]_vars

\* C17: once a fatal condition of an account is handled, no session file is
\* left for it: after the message of the restricted branch of a batch, and
\* after a start request found the stored session unauthorized.
C17_FatalConditionDeletesCredential ==
    [][/\ \A t \in Tasks :
             worker_send_restricted(t, TRUE)
                 => ~load_session_string(tasks[t].key[1], tasks[t].key[2])'
       /\ \A h \in Invs :
             start_process_handler_auth(h, "unauthorized", MaxTasks)
                 => ~load_session_string(handlers[h].owner, handlers[h].label)']_vars

\* Every sleep and every remote call of the worker returns, and the event
\* loop runs a task that is ready: the worker task takes its next step.
SpecWorkerFair == SpecWorker /\ WF_vars(run_group_creation_worker(1, BATCH))

\* C21: a worker issues at most 50 create-operations, whatever the remote
\* answers, and a worker inside its job body reaches its cleanup phase.
C21_BatchIsBoundedAndEnds ==
    /\ [](\A t \in Tasks : tasks[t].calls <= BATCH)
    /\ \A t \in Tasks : InBody(t) ~> Ended(t)

\* a worker has ended after the create-operation of the last index, some of
\* its create-operations answered by a rate limit
C21_Witness ==
    \E t \in Tasks :
        /\ tasks[t].pc = "done"
        /\ tasks[t].calls = BATCH
        /\ tasks[t].flood > 0

(***************************************************************************)
(* The semaphore under contention.  All but one of the slots are held by   *)
(* workers suspended in the last sleep of their batch (line 170, 300 to    *)
(* 600 seconds): the state after four start requests whose creates all     *)
(* went well.  The workers started from there contend for the last slot,   *)
(* and for the slot of the first sleeping worker once it wakes up.         *)
(***************************************************************************)

SemSleepers == MAX_CONCURRENT_WORKERS - 1
SemTasks == MAX_CONCURRENT_WORKERS + 1
SleeperKeys == <<worker_key(1, <<"a">>), worker_key(1, <<"b">>),
                 worker_key(1, <<"c">>), worker_key(2, <<"a">>)>>
SemOwners == {2}
SemLabels == {<<"b">>, <<"c">>}
SemDeleted == <<"b">>

Sleeper(key) ==
    [FreshTask EXCEPT !.pc = "sleep", !.key = key, !.i = SchedBatch - 1,
                      !.made = SchedBatch, !.calls = SchedBatch, !.conn = TRUE]

InitSem ==
    /\ login_sessions = [u \in Owners |-> NoSession]
    /\ active_workers = [k \in Keys |->
          IF \E t \in 1..SemSleepers : SleeperKeys[t] = k
          THEN CHOOSE t \in 1..SemSleepers : SleeperKeys[t] = k
          ELSE NoTask]
    /\ worker_semaphore = MAX_CONCURRENT_WORKERS - SemSleepers
    /\ files = {get_session_path(k[1], k[2]) : k \in Owners \X {<<"a">>, <<"b">>, <<"c">>}}
    /\ tasks = [t \in Tasks |->
          IF t <= SemSleepers THEN Sleeper(SleeperKeys[t]) ELSE FreshTask]
    /\ handlers = [h \in Invs |-> IdleHandler]
    /\ clients = [c \in Clients |-> "free"]
    /\ delete_reply = "none"

\* the tasks followed: the first of the sleeping workers and the new ones
SemRunning == {1} \cup (SemSleepers + 1)..SemTasks

NextSem ==
    \/ start_process_handler(1, SemOwners, SemLabels, SemTasks)
    \/ \E u \in SemOwners : delete_account_handler(u, SemDeleted)
    \/ \E t \in SemRunning : run_group_creation_worker(t, SchedBatch)
    \/ \E t \in SemRunning : worker_acquire(t)

SpecSem == InitSem /\ [][NextSem]_vars

WorkersInBody == {t \in Tasks : InBody(t)}

\* C4: at most MAX_CONCURRENT_WORKERS workers are in their job body, the
\* semaphore counts the free slots, and a worker suspended at the gate has
\* performed no create-operation.
C4_AtMostFiveInBody ==
    /\ Cardinality(WorkersInBody) <= MAX_CONCURRENT_WORKERS
    /\ worker_semaphore = MAX_CONCURRENT_WORKERS - Cardinality(WorkersInBody)
    /\ \A t \in Tasks : tasks[t].pc = "gate" => tasks[t].made = 0

\* five workers are in their body and one more is suspended at the gate
C4_Witness ==
    /\ Cardinality(WorkersInBody) = MAX_CONCURRENT_WORKERS
    /\ \E t \in Tasks : tasks[t].pc = "gate"

(***************************************************************************)
(* Start requests of one account handled concurrently.                     *)
(***************************************************************************)

RaceOwner == 1
RaceLabel == <<"a">>

InitRace ==
    /\ login_sessions = [u \in Owners |-> NoSession]
    /\ active_workers = [k \in Keys |-> NoTask]
    /\ worker_semaphore = MAX_CONCURRENT_WORKERS
    /\ files = {get_session_path(RaceOwner, RaceLabel)}
    /\ tasks = [t \in Tasks |-> FreshTask]
    /\ handlers = [h \in Invs |-> IdleHandler]
    /\ clients = [c \in Clients |-> "free"]
    /\ delete_reply = "none"

NextRace ==
    \/ \E h \in Invs : start_process_handler(h, {RaceOwner}, {RaceLabel}, RaceTasks)
    \/ delete_account_handler(RaceOwner, RaceLabel)
    \/ \E t \in 1..RaceTasks : run_group_creation_worker(t, SchedBatch)

SpecRace == InitRace /\ [][NextRace]_vars

LiveTasks(key) ==
    {t \in Tasks : tasks[t].key = key /\ tasks[t].pc \notin {"unused", "done"}}

\* C5: for every key at most one worker task exists at any time.
C5_OneWorkerPerKey ==
    \A k \in Keys : Cardinality(LiveTasks(k)) <= 1

\* C18: the cleanup of a cancelled worker leaves the Worker Handle of another
\* worker registered under the same key in place.
C18_CleanupRemovesOwnHandleOnly ==
    [][\A t \in Tasks :
          (/\ worker_finally_send(t, TRUE)
           /\ tasks[t].why = "cancelled"
           /\ active_workers[tasks[t].key] \notin {NoTask, t})
          => active_workers'[tasks[t].key] = active_workers[tasks[t].key]]_vars

(***************************************************************************)
(* The login flow alone: one owner, whose messages are handled in up to    *)
(* MaxInv concurrent invocations.                                          *)
(***************************************************************************)

LoginOwners == {1}
LoginLabels == {<<>>, <<"a">>, <<"a", "!">>}

NextLogin == \E h \in Invs : login_flow(h, LoginOwners, LoginLabels)

SpecLogin == Init /\ [][NextLogin]_vars

\* C6: when the session of the owner awaits the password and the submitted
\* password is rejected as wrong, the session is kept as it is.
C6_WrongPasswordKeepsSession ==
    [][\A h \in Invs :
          (/\ handle_password_input_sign_in(h, "wrong_password")
           /\ login_sessions[handlers[h].owner].state = "awaiting_password")
          => login_sessions'[handlers[h].owner] = login_sessions[handlers[h].owner]]_vars

\* C9: a failure branch of an input handler that discards the session of the
\* owner leaves the client of that session not connected.
C9_FailureDisconnectsClient ==
    [][\A h \in Invs :
          (/\ handlers[h].pc # "idle"
           /\ login_failed(h)
           /\ session_exists(handlers[h].owner)
           /\ login_sessions[handlers[h].owner].client # NoClient)
          => clients'[login_sessions[handlers[h].owner].client] # "connected"]_vars

\* C12: a label submitted in the awaiting-account-label state is accepted
\* (the credential is written) only when it is not empty and the owner has no
\* credential record under it; an empty or used label writes nothing.
C12_UsedLabelRejected ==
    [][\A u \in Owners, l \in LoginLabels :
          handle_account_name_input(u, l)
              => (l # <<>> /\ ~load_session_string(u, l))]_vars

\* C14: no removal from the Login Session map fails on a missing key: no
\* handler invocation ends with the KeyError of one of its `del` statements.
C14_RemovalsNeverFail ==
    \A h \in Invs :
        handlers[h].raised \notin {DelLines.p, DelLines.c, DelLines.w}

\* C15: a text input arriving while the session awaits the code ends in one
\* of three ways.  Sign-in succeeded: the session awaits the account label.
\* Second factor required: the session awaits the password.  Anything else,
\* an input that never reaches sign_in included: the session is discarded.
C15_CodeInputOutcomes ==
    [][\A h \in Invs, u \in Owners :
          /\ (handle_code_input_begin(h, u) /\ handlers'[h].pc = "idle")
                => login_sessions'[u].state = "none"
          /\ \A r \in CodeOutcomes :
                (/\ handlers[h].owner = u
                 /\ login_sessions[u].state = "awaiting_code"
                 /\ handle_code_input_sign_in(h, r))
                => login_sessions'[u].state =
                      CASE r = "ok" -> "awaiting_account_name"
                        [] r = "password_needed" -> "awaiting_password"
                        [] OTHER -> "none"]_vars

\* C19: a session that awaits the code, the password or the account label
\* holds the phone and the client the code was requested with.
C19_LaterStatesHoldPhoneAndClient ==
    \A u \in Owners :
        login_sessions[u].state \in {"awaiting_code", "awaiting_password",
                                     "awaiting_account_name"}
            => (login_sessions[u].phone /\ login_sessions[u].client # NoClient)

\* C20: the session file an accepted label is saved to is the file of no
\* account the owner already has: different labels map to different files.
C20_AcceptedLabelHasOwnFile ==
    [][\A u \in Owners, l \in LoginLabels :
          handle_account_name_input(u, l)
              => \A other \in get_user_accounts(u) :
                    get_session_path(u, other) # get_session_path(u, l)]_vars

(***************************************************************************)
(* The whole bot for one owner and one account.                            *)
(***************************************************************************)

SpecOwners == {1}
SpecLabels == {<<"a">>}

Next ==
    \/ login_flow(1, SpecOwners, SpecLabels)
    \/ start_process_handler(1, SpecOwners, SpecLabels, 1)
    \/ \E u \in SpecOwners, l \in SpecLabels : delete_account_handler(u, l)
    \/ run_group_creation_worker(1, SchedBatch)

Spec == Init /\ [][Next]_vars

\* C10: a Login Session and a Worker Handle of the same owner never exist at
\* the same time.
C10_LoginExcludesWorker ==
    \A k \in Keys : ~(session_exists(k[1]) /\ handle_exists(k))

\* C11: when a label is accepted, the credential is saved for (owner, label),
\* the session of the owner is discarded, and a Worker Handle exists for
\* (owner, label).
C11_LoginHandsOffToScheduler ==
    [][\A u \in Owners, l \in Labels :
          handle_account_name_input(u, l)
              => /\ load_session_string(u, l)'
                 /\ ~session_exists(u)'
                 /\ handle_exists(worker_key(u, l))']_vars

====
